---- MODULE Spec2Model ----
(***************************************************************************)
(* Lead Agents Studio outreach tooling: the follow-up scheduler            *)
(* (followup_system.py), the real-time signal listener                     *)
(* (realtime_service.py) and the scheduled pipeline (pipeline.py).         *)
(*                                                                         *)
(* The programs share nothing but the clock, so each has its own           *)
(* next-state relation over the same variables:                            *)
(*   Spec          follow-up passes run one at a time                      *)
(*   SpecOverlap   two follow-up passes may overlap (simple_api.py spawns  *)
(*                 followup_system.py per request, with no lock)           *)
(*   SpecFair      Spec, with passes, clock and deliveries kept going      *)
(*   SpecMalformed Spec, started from a store holding a malformed record   *)
(*   SpecCrash     follow-up passes that may die before their save         *)
(*   SpecMetrics   calls of calculate_metrics (llm_brain.py)               *)
(*   SpecRealtime  the webhook's background tasks                          *)
(*   SpecPipeline  runs of run_pipeline                                    *)
(***************************************************************************)
EXTENDS Integers, Sequences, FiniteSets, TLC

(***************************************************************************)
(* Bounds of the model.                                                    *)
(***************************************************************************)
\* clock ticks per day: datetime has microsecond resolution, the model a coarse one
TicksPerDay == 2
\* the clock stops after this many days
MaxDays == 8
MaxTime == MaxDays * TicksPerDay
\* initial sends are tracked during the first MaxTrackTime ticks only
MaxTrackTime == 2
\* a pass lasts at most this many ticks
MaxPassTicks == 1
\* engagement flags that are true in the store at a time
MaxFlagsSet == 1

(***************************************************************************)
(* Addresses.  An address is a pair <<local part, domain>>; the empty      *)
(* tuple is the empty string.  str.lower() is a table on the parts.        *)
(***************************************************************************)
NoEmail == <<>>

LowerPart(s) ==
    CASE s = "INFO" -> "info"
      [] s = "X.com" -> "x.com"
      [] OTHER -> s

\* str.lower()
Lower(email) == IF email = NoEmail THEN NoEmail
                ELSE <<LowerPart(email[1]), LowerPart(email[2])>>

\* the addresses callers pass in: two spellings of one address, and another
Emails == { <<"info", "x.com">>, <<"INFO", "X.com">>, <<"bob", "y.com">> }

Keys == { Lower(e) : e \in Emails }

Companies == { "Glow Medspa" }

(***************************************************************************)
(* Timestamps.  datetime.isoformat() writes a date part and a time part;   *)
(* datetime.fromisoformat() reads them back.  None is the empty tuple.     *)
(***************************************************************************)
None == <<>>

isoformat(t) == << t \div TicksPerDay, t % TicksPerDay >>

fromisoformat(s) == s[1] * TicksPerDay + s[2]

\* Python truthiness of a stored timestamp: None is falsy, an ISO string is not
Truthy(x) == x # None

(***************************************************************************)
(* The tracking mapping.  A Python dict keeps insertion order, so the      *)
(* mapping is a sequence of entries, each carrying its key as `email`.     *)
(***************************************************************************)
Has(m, k) == \E i \in 1..Len(m) : m[i].email = k

IndexOf(m, k) == CHOOSE i \in 1..Len(m) : m[i].email = k

Get(m, k) == m[IndexOf(m, k)]

\* m[k] = v: an existing key keeps its place, a new key goes last
Put(m, k, v) ==
    IF Has(m, k) THEN [m EXCEPT ![IndexOf(m, k)] = v]
    ELSE Append(m, v)

KeysOf(m) == { m[i].email : i \in 1..Len(m) }

VARIABLES
    now,              \* datetime.utcnow(), in ticks
    fileStatus,       \* FOLLOWUP_FILE: "missing", "corrupt" or "ok"
    fileData,         \* FOLLOWUP_FILE's mapping when fileStatus = "ok"
    pc,               \* per pass: "idle", "loop" or "crashed"
    tracking,         \* per pass: send_followups' local `tracking`
    passNow,          \* per pass: send_followups' local `now`
    idx,              \* per pass: position of the for loop in tracking
    sent_followup_1,  \* per pass: local counter
    sent_followup_2,  \* per pass: local counter
    attempts,         \* per pass: the send_email calls made, in order
    lost,             \* stamps a save has erased from the store: <<key, stage, initial_sent>>
    overlap,          \* a pass has started while another was running
    \* realtime_service.py
    rtSentFile,       \* SENT_FILE (/tmp/sent_las.json): the addresses saved
    signalsLog,       \* SIGNALS_FILE: the signals log_signal has kept
    task,             \* per background task: its place in process_signal and its locals
    rtSends,          \* per key: the initial emails send_email has delivered
    \* pipeline.py
    plSentFile,       \* SENT_FILE (/tmp/sent_emails.json)
    plPc,             \* run_pipeline: "idle", "loop" or "crashed"
    sent_emails,      \* run_pipeline's local snapshot of the sent set
    to_send,          \* run_pipeline's local list
    plI,              \* run_pipeline's loop index (1-based)
    plSent,           \* run_pipeline's local counter `sent`
    plFailed,         \* run_pipeline's local counter `failed`
    plRuns,           \* runs started so far
    plSends,          \* per key: the initial emails send_email has delivered
    \* llm_brain.py
    mTracking,        \* calculate_metrics' argument `tracking`
    mEvents,          \* calculate_metrics' argument `events`
    metrics           \* what calculate_metrics returned, None before the call

fuVars == << now, fileStatus, fileData, pc, tracking, passNow, idx,
             sent_followup_1, sent_followup_2, attempts, lost, overlap >>

rtVars == << rtSentFile, signalsLog, task, rtSends >>

plVars == << plSentFile, plPc, sent_emails, to_send, plI, plSent, plFailed,
             plRuns, plSends >>

mxVars == << mTracking, mEvents, metrics >>

vars == << fuVars, rtVars, plVars, mxVars >>

Passes == { "p1", "p2" }

\* no pass is between its load and its save: the callers serialize access to
\* the store (spec 4.1), so the other writers run between passes
Quiet == \A p \in Passes : pc[p] # "loop"


(***************************************************************************)
(* Record store (followup_system.py, STORAGE).                             *)
(***************************************************************************)
\* load_followup_tracking(): the file's mapping; {} when the file is missing
\* or json.load raises (the bare except)
load_followup_tracking == IF fileStatus = "ok" THEN fileData ELSE << >>

\* lines 77-82 without the try/except: json.load raises on a corrupt file
LoadRaisesOnCorrupt == fileStatus = "corrupt"

\* lines 77-82: whether load_followup_tracking raises to its caller; the bare
\* except swallows every exception of open and json.load
LoadRaises == FALSE

\* the record track_initial_send writes for (email, company) at time t
NewRecord(email, company, t) ==
    [ email           |-> Lower(email),
      company_name    |-> company,
      first_name      |-> "there",
      initial_sent    |-> isoformat(t),
      followup_1_sent |-> None,
      followup_2_sent |-> None,
      replied         |-> FALSE,
      opened          |-> FALSE,
      clicked         |-> FALSE ]

\* track_initial_send(email, company): load, tracking[email.lower()] = {...}, save
track_initial_send(email, company) ==
    /\ Quiet
    /\ ~LoadRaises
    /\ now < MaxTrackTime
    /\ fileData' = Put(load_followup_tracking, Lower(email),
                       NewRecord(email, company, now))
    /\ fileStatus' = "ok"
    /\ UNCHANGED << now, pc, tracking, passNow, idx, sent_followup_1,
                    sent_followup_2, attempts, lost, overlap >>
    /\ UNCHANGED << rtVars, plVars, mxVars >>

(***************************************************************************)
(* The per-record decision of send_followups (lines 150-187).              *)
(***************************************************************************)
\* line 152 also skipping the records that were opened
SkipOpenedToo(data) == data.replied \/ data.clicked \/ data.opened

\* line 152 without the clicked test
SkipRepliedOnly(data) == data.replied

\* line 152: if data.get("replied") or data.get("clicked"): continue
Skip(data) == data.replied \/ data.clicked

\* line 155: data["initial_sent"] raises KeyError when the key is missing, and
\* fromisoformat(None) raises TypeError when it is null
Malformed(data) == data.initial_sent = None

\* line 156 rounding up instead of down
days_sinceCeil(data, nowp) ==
    (nowp - fromisoformat(data.initial_sent) + TicksPerDay - 1) \div TicksPerDay

\* line 156: (now - initial_sent).days, timedelta.days being the floor
days_since(data, nowp) ==
    (nowp - fromisoformat(data.initial_sent)) \div TicksPerDay

\* line 162 giving up on stage 1 once stage 2 is due
Due1UntilDay7(data, d) == d >= 3 /\ d < 7 /\ ~Truthy(data.followup_1_sent)

\* line 162 without the `not data.get("followup_1_sent")` test
Due1Unguarded(data, d) == d >= 3

\* line 162
Due1(data, d) == d >= 3 /\ ~Truthy(data.followup_1_sent)

\* line 176 waiting 4 whole days after the stage-1 stamp
Due2AfterGap(data, d) ==
    /\ d >= 7
    /\ ~Truthy(data.followup_2_sent)
    /\ Truthy(data.followup_1_sent) =>
          (fromisoformat(data.initial_sent) + d * TicksPerDay
              - fromisoformat(data.followup_1_sent)) \div TicksPerDay >= 4

\* line 176 with the threshold of line 162
Due2AtDay3(data, d) == d >= 3 /\ ~Truthy(data.followup_2_sent)

\* line 176 (reached only when line 162 is false: elif)
Due2(data, d) == d >= 7 /\ ~Truthy(data.followup_2_sent)

\* lines 162 and 176 in the other order
StageDueStage2First(data, nowp) ==
    IF Skip(data) THEN 0
    ELSE LET d == days_since(data, nowp)
         IN  IF Due2(data, d) THEN 2
             ELSE IF Due1(data, d) THEN 1
             ELSE 0

\* the stage send_email is called for: 1, 2, or 0 for none
StageDue(data, nowp) ==
    IF Skip(data) THEN 0
    ELSE LET d == days_since(data, nowp)
         IN  IF Due1(data, d) THEN 1
             ELSE IF Due2(data, d) THEN 2
             ELSE 0

\* lines 168-169 and 182-183 without the test of send_email's result
StampedAlways(data, stage, ok, nowp) ==
    IF stage = 1 THEN [data EXCEPT !.followup_1_sent = isoformat(nowp)]
    ELSE [data EXCEPT !.followup_2_sent = isoformat(nowp)]

\* line 183 writing a fresh stage-2 record that drops the stage-1 stamp
StampedStage2DropsStage1(data, stage, ok, nowp) ==
    IF ~ok THEN data
    ELSE IF stage = 1 THEN [data EXCEPT !.followup_1_sent = isoformat(nowp)]
    ELSE [data EXCEPT !.followup_2_sent = isoformat(nowp),
                      !.followup_1_sent = None]

\* lines 169 and 183 reading the clock again instead of the pass's `now`
StampedWithClock(data, stage, ok, nowp) ==
    IF ~ok THEN data
    ELSE IF stage = 1 THEN [data EXCEPT !.followup_1_sent = isoformat(now)]
    ELSE [data EXCEPT !.followup_2_sent = isoformat(now)]

\* lines 168-173 and 182-187: the stamp after send_email returned ok
Stamped(data, stage, ok, nowp) ==
    IF ~ok THEN data
    ELSE IF stage = 1 THEN [data EXCEPT !.followup_1_sent = isoformat(nowp)]
    ELSE [data EXCEPT !.followup_2_sent = isoformat(nowp)]

\* line 87 leaving out the records whose sequence is complete
SaveDropsCompleted(data) ==
    SelectSeq(data, LAMBDA r : ~(Truthy(r.followup_1_sent) /\ Truthy(r.followup_2_sent)))

\* save_followup_tracking(data): the whole file is overwritten
save_followup_tracking(data) == data

\* lines 150-189 with a save at the end of every iteration
StoreSavedEachRecord(stored, mem) == save_followup_tracking(mem)

\* lines 150-189: the loop body never calls save_followup_tracking, so the
\* file's mapping after an iteration is the one before it
StoreAfterRecord(stored, mem) == stored

\* the stamps of the store that writing `data` over it erases
Erased(data) ==
    LET old == load_followup_tracking
        gone(k, f) == /\ Truthy(Get(old, k)[f])
                      /\ Has(data, k) => ~Truthy(Get(data, k)[f])
    IN  { <<k, 1, Get(old, k).initial_sent>> :
             k \in { x \in KeysOf(old) : gone(x, "followup_1_sent") } }
        \cup
        { <<k, 2, Get(old, k).initial_sent>> :
             k \in { x \in KeysOf(old) : gone(x, "followup_2_sent") } }

(***************************************************************************)
(* send_followups, one pass p.                                             *)
(***************************************************************************)
\* lines 144-148: load the store, take the `now` snapshot, zero the counters
StartPass(p) ==
    /\ pc[p] # "loop"
    /\ pc' = [pc EXCEPT ![p] = IF LoadRaises THEN "crashed" ELSE "loop"]
    /\ tracking' = [tracking EXCEPT ![p] = load_followup_tracking]
    /\ passNow' = [passNow EXCEPT ![p] = now]
    /\ idx' = [idx EXCEPT ![p] = 1]
    /\ sent_followup_1' = [sent_followup_1 EXCEPT ![p] = 0]
    /\ sent_followup_2' = [sent_followup_2 EXCEPT ![p] = 0]
    /\ attempts' = [attempts EXCEPT ![p] = << >>]
    /\ overlap' = (overlap \/ \E q \in Passes \ {p} : pc[q] = "loop")
    /\ UNCHANGED << now, fileStatus, fileData, lost >>
    /\ UNCHANGED << rtVars, plVars, mxVars >>

\* lines 150-189: one iteration of the for loop; ok is what send_email returns
\* (it catches every exception and returns False)
EvalRecord(p) ==
    /\ pc[p] = "loop"
    /\ idx[p] <= Len(tracking[p])
    /\ \E ok \in BOOLEAN :
         LET data  == tracking[p][idx[p]]
             stage == StageDue(data, passNow[p])
         IN  IF Skip(data)
             THEN /\ idx' = [idx EXCEPT ![p] = @ + 1]
                  /\ UNCHANGED << pc, tracking, sent_followup_1,
                                  sent_followup_2, attempts >>
             ELSE IF Malformed(data)
             THEN /\ pc' = [pc EXCEPT ![p] = "crashed"]
                  /\ UNCHANGED << idx, tracking, sent_followup_1,
                                  sent_followup_2, attempts >>
             ELSE /\ idx' = [idx EXCEPT ![p] = @ + 1]
                  /\ tracking' = [tracking EXCEPT ![p][idx[p]] =
                                     IF stage = 0 THEN data
                                     ELSE Stamped(data, stage, ok, passNow[p])]
                  /\ attempts' = [attempts EXCEPT ![p] =
                                     IF stage = 0 THEN @
                                     ELSE Append(@, [email |-> data.email,
                                                     stage |-> stage,
                                                     ok    |-> ok])]
                  /\ sent_followup_1' = [sent_followup_1 EXCEPT ![p] =
                                     IF stage = 1 /\ ok THEN @ + 1 ELSE @]
                  /\ sent_followup_2' = [sent_followup_2 EXCEPT ![p] =
                                     IF stage = 2 /\ ok THEN @ + 1 ELSE @]
                  /\ UNCHANGED pc
    /\ fileData' = StoreAfterRecord(fileData, tracking'[p])
    /\ UNCHANGED << now, fileStatus, passNow, lost, overlap >>
    /\ UNCHANGED << rtVars, plVars, mxVars >>

\* line 192: save_followup_tracking(tracking), after the loop
FinishPass(p) ==
    /\ pc[p] = "loop"
    /\ idx[p] > Len(tracking[p])
    /\ fileData' = save_followup_tracking(tracking[p])
    /\ fileStatus' = "ok"
    /\ lost' = lost \cup Erased(save_followup_tracking(tracking[p]))
    /\ pc' = [pc EXCEPT ![p] = "idle"]
    \* the process exits: its locals are gone
    /\ tracking' = [tracking EXCEPT ![p] = << >>]
    /\ passNow' = [passNow EXCEPT ![p] = 0]
    /\ idx' = [idx EXCEPT ![p] = 1]
    /\ sent_followup_1' = [sent_followup_1 EXCEPT ![p] = 0]
    /\ sent_followup_2' = [sent_followup_2 EXCEPT ![p] = 0]
    /\ attempts' = [attempts EXCEPT ![p] = << >>]
    /\ UNCHANGED << now, overlap >>
    /\ UNCHANGED << rtVars, plVars, mxVars >>

\* the process dies inside the loop (the pass sleeps 5 s after every record,
\* line 189, and nothing catches a signal or an interrupt there): line 192 is
\* never reached
Kill(p) ==
    /\ pc[p] = "loop"
    /\ pc' = [pc EXCEPT ![p] = "crashed"]
    /\ UNCHANGED << now, fileStatus, fileData, tracking, passNow, idx,
                    sent_followup_1, sent_followup_2, attempts, lost, overlap >>
    /\ UNCHANGED << rtVars, plVars, mxVars >>

(***************************************************************************)
(* The environment of the follow-up system.                                *)
(***************************************************************************)
\* time passes (also during a pass: time.sleep(5) after every record)
Tick ==
    /\ now < MaxTime
    /\ \A p \in Passes : pc[p] = "loop" => now - passNow[p] < MaxPassTicks
    /\ now' = now + 1
    /\ UNCHANGED << fileStatus, fileData, pc, tracking, passNow, idx,
                    sent_followup_1, sent_followup_2, attempts, lost, overlap >>
    /\ UNCHANGED << rtVars, plVars, mxVars >>

Flags == { "replied", "opened", "clicked" }

FlagsSet(m) == Cardinality({ <<i, f>> \in (1..Len(m)) \X Flags : m[i][f] })

\* inbound-event ingestion sets an engagement flag of a stored record
IngestEvent(k, flag) ==
    /\ Quiet
    /\ fileStatus = "ok"
    /\ FlagsSet(fileData) < MaxFlagsSet
    /\ Has(fileData, k)
    /\ ~Get(fileData, k)[flag]
    /\ fileData' = Put(fileData, k, [Get(fileData, k) EXCEPT ![flag] = TRUE])
    /\ UNCHANGED << now, fileStatus, pc, tracking, passNow, idx,
                    sent_followup_1, sent_followup_2, attempts, lost, overlap >>
    /\ UNCHANGED << rtVars, plVars, mxVars >>

\* FOLLOWUP_FILE lives in /tmp: it can disappear, or be left truncated by a
\* writer killed inside json.dump
StoreUnavailable(how) ==
    /\ Quiet
    /\ fileStatus = "ok"
    /\ fileStatus' = how
    /\ fileData' = << >>
    /\ UNCHANGED << now, pc, tracking, passNow, idx, sent_followup_1,
                    sent_followup_2, attempts, lost, overlap >>
    /\ UNCHANGED << rtVars, plVars, mxVars >>

(***************************************************************************)
(* realtime_service.py: the webhook and its background tasks.              *)
(***************************************************************************)
\* log_signal keeps the last SignalsKept signals
SignalsKept == 1000
\* webhook calls in one behaviour
MaxSignals == 3

\* the worker threads that run the background tasks
Tasks == { "t1", "t2" }

\* a website is a sequence of the pieces str.replace and str.split look at
NoWebsite == << >>

\* the signal payloads: an address in two spellings, a website only, neither
Signals ==
    { [name |-> "Glow Medspa", email |-> <<"info", "x.com">>, website |-> NoWebsite],
      [name |-> "",            email |-> <<"INFO", "X.com">>, website |-> NoWebsite],
      [name |-> "Glow Medspa", email |-> NoEmail,
       website |-> <<"https://", "www.", "x.com", "/", "about">>],
      [name |-> "",            email |-> NoEmail,             website |-> NoWebsite] }

\* str.replace(piece, "")
Without(web, piece) == SelectSeq(web, LAMBDA x : x # piece)

\* line 135: website.replace("https://", "").replace("http://", "")
\*                  .replace("www.", "").split("/")[0]
DomainOf(web) ==
    LET w == Without(Without(Without(web, "https://"), "http://"), "www.")
    IN  IF w = << >> \/ w[1] = "/" THEN "" ELSE w[1]

\* lines 130-136: the address process_signal writes to
SignalEmail(data) ==
    IF data.email = NoEmail /\ data.website # NoWebsite
    THEN <<"info", DomainOf(data.website)>>
    ELSE data.email

\* line 150
SignalCompany(data) == IF data.name # "" THEN data.name ELSE "your clinic"

\* load_sent(): the saved set, empty when the file is missing or unreadable
load_sent == rtSentFile

\* lines 61-62: signals[-1000:]
LastKept(signals) ==
    IF Len(signals) > SignalsKept
    THEN SubSeq(signals, Len(signals) - SignalsKept + 1, Len(signals))
    ELSE signals

IdleTask == [pc |-> "idle", data |-> << >>, email |-> NoEmail, sent |-> {}]

\* brightdata_webhook (lines 177-206): log the signal, queue process(data)
brightdata_webhook(t, data) ==
    /\ task[t].pc = "idle"
    /\ Len(signalsLog) < MaxSignals
    /\ signalsLog' = LastKept(Append(signalsLog, data))
    /\ task' = [task EXCEPT ![t] = [IdleTask EXCEPT !.pc = "check", !.data = data]]
    /\ UNCHANGED << rtSentFile, rtSends >>
    /\ UNCHANGED << fuVars, plVars, mxVars >>

\* process_signal lines 129-144: find the address, skip when there is none or
\* when load_sent() already holds it
CheckSent(t) ==
    /\ task[t].pc = "check"
    /\ LET email == SignalEmail(task[t].data)
       IN  task' = [task EXCEPT ![t] =
                      IF email = NoEmail THEN IdleTask
                      ELSE IF Lower(email) \in load_sent THEN IdleTask
                      ELSE [@ EXCEPT !.pc = "send", !.email = email]]
    /\ UNCHANGED << rtSentFile, signalsLog, rtSends >>
    /\ UNCHANGED << fuVars, plVars, mxVars >>

\* process_signal line 152: send_email(email, company); it returns False on
\* any exception or non-200 answer
SendInitial(t) ==
    /\ task[t].pc = "send"
    /\ \E ok \in BOOLEAN :
         /\ task' = [task EXCEPT ![t] =
                        IF ok THEN [@ EXCEPT !.pc = "save_load"] ELSE IdleTask]
         /\ rtSends' = IF ok
                       THEN [rtSends EXCEPT ![Lower(task[t].email)] = @ + 1]
                       ELSE rtSends
    /\ UNCHANGED << rtSentFile, signalsLog >>
    /\ UNCHANGED << fuVars, plVars, mxVars >>

\* save_sent line 42: sent = load_sent()
SaveSentLoad(t) ==
    /\ task[t].pc = "save_load"
    /\ task' = [task EXCEPT ![t] = [@ EXCEPT !.pc = "save_write", !.sent = load_sent]]
    /\ UNCHANGED << rtSentFile, signalsLog, rtSends >>
    /\ UNCHANGED << fuVars, plVars, mxVars >>

\* save_sent lines 43-44: sent.add(email.lower()); write the whole file
SaveSentWrite(t) ==
    /\ task[t].pc = "save_write"
    /\ rtSentFile' = task[t].sent \cup { Lower(task[t].email) }
    /\ task' = [task EXCEPT ![t] = IdleTask]
    /\ UNCHANGED << signalsLog, rtSends >>
    /\ UNCHANGED << fuVars, plVars, mxVars >>

InitRealtime ==
    /\ rtSentFile = {}
    /\ signalsLog = << >>
    /\ task = [t \in Tasks |-> IdleTask]
    /\ rtSends = [k \in Keys |-> 0]

NextRealtime ==
    \/ \E t \in Tasks, data \in Signals : brightdata_webhook(t, data)
    \/ \E t \in Tasks : CheckSent(t)
    \/ \E t \in Tasks : SendInitial(t)
    \/ \E t \in Tasks : SaveSentLoad(t)
    \/ \E t \in Tasks : SaveSentWrite(t)

(***************************************************************************)
(* pipeline.py: run_pipeline.                                              *)
(***************************************************************************)
MAX_EMAILS_PER_RUN == 20
\* leads one scrape returns
MaxLeads == 2
\* runs of the pipeline in one behaviour
MaxRuns == 2

\* the lists scrape_google_maps_brightdata can return: every lead has an
\* address (line 134), the same address may come twice or in two spellings
LeadLists ==
    UNION { [1..n -> { [email |-> e, company_name |-> "Glow Medspa", first_name |-> "there"]
                        : e \in Emails }] : n \in 0..MaxLeads }

\* load_sent_emails()
load_sent_emails == plSentFile

\* line 228: the leads whose lower-cased address is not in sent_emails
NewLeads(leads, sent) == SelectSeq(leads, LAMBDA l : Lower(l.email) \notin sent)

\* line 232: new_leads[:MAX_EMAILS_PER_RUN]
FirstN(leads, n) == SubSeq(leads, 1, IF Len(leads) < n THEN Len(leads) ELSE n)

\* save_sent_email(email): load, add email.lower(), write
save_sent_email(email) == load_sent_emails \cup { Lower(email) }

\* run_pipeline lines 208-237: load the sent set once, scrape, filter, cut
StartRun(leads) ==
    /\ plPc # "loop"
    /\ plRuns < MaxRuns
    /\ plRuns' = plRuns + 1
    /\ plPc' = "loop"
    /\ sent_emails' = load_sent_emails
    /\ to_send' = FirstN(NewLeads(leads, load_sent_emails), MAX_EMAILS_PER_RUN)
    /\ plI' = 1
    /\ plSent' = 0
    /\ plFailed' = 0
    /\ UNCHANGED << plSentFile, plSends >>
    /\ UNCHANGED << fuVars, rtVars, mxVars >>

\* run_pipeline lines 239-266, one iteration: send_email answers success,
\* answers failure, or requests.post raises (nothing catches it)
SendLead ==
    /\ plPc = "loop"
    /\ plI <= Len(to_send)
    /\ \E result \in {"success", "failure", "raise"} :
         LET email == to_send[plI].email
         IN  /\ plPc' = IF result = "raise" THEN "crashed" ELSE "loop"
             /\ plI' = IF result = "raise" THEN plI ELSE plI + 1
             /\ plSent' = IF result = "success" THEN plSent + 1 ELSE plSent
             /\ plFailed' = IF result = "failure" THEN plFailed + 1 ELSE plFailed
             /\ plSentFile' = IF result = "success"
                              THEN save_sent_email(email) ELSE plSentFile
             /\ plSends' = IF result = "success"
                           THEN [plSends EXCEPT ![Lower(email)] = @ + 1]
                           ELSE plSends
    /\ UNCHANGED << sent_emails, to_send, plRuns >>
    /\ UNCHANGED << fuVars, rtVars, mxVars >>

\* run_pipeline lines 268-278: the summary, and the process exits
EndRun ==
    /\ plPc = "loop"
    /\ plI > Len(to_send)
    /\ plPc' = "idle"
    /\ sent_emails' = {}
    /\ to_send' = << >>
    /\ plI' = 1
    /\ plSent' = 0
    /\ plFailed' = 0
    /\ UNCHANGED << plSentFile, plRuns, plSends >>
    /\ UNCHANGED << fuVars, rtVars, mxVars >>

InitPipeline ==
    /\ plSentFile = {}
    /\ plPc = "idle"
    /\ sent_emails = {}
    /\ to_send = << >>
    /\ plI = 1
    /\ plSent = 0
    /\ plFailed = 0
    /\ plRuns = 0
    /\ plSends = [k \in Keys |-> 0]

NextPipeline ==
    \/ \E leads \in LeadLists : StartRun(leads)
    \/ SendLead
    \/ EndRun

(***************************************************************************)
(* llm_brain.py: calculate_metrics, a pure function of the tracking        *)
(* mapping and the event list.                                             *)
(***************************************************************************)
\* records in a tracking mapping handed to calculate_metrics
MaxRecords == 3
\* events in an event list handed to calculate_metrics
MaxEvents == 2

\* the keys of those mappings, in the order they were inserted
MetricsKeys == << <<"info", "x.com">>, <<"bob", "y.com">>, <<"amy", "z.com">> >>

\* the records a key can hold: each stamp set or not, opened or not
MetricsRecords(k) ==
    { [ NewRecord(k, "Glow Medspa", 0)
          EXCEPT !.followup_1_sent = f1, !.followup_2_sent = f2, !.opened = o ]
        : f1 \in { None, isoformat(3 * TicksPerDay) },
          f2 \in { None, isoformat(7 * TicksPerDay) },
          o \in BOOLEAN }

\* the mappings: up to MaxRecords keys, one record each
MetricsTrackings ==
    UNION { { m \in [1..n -> UNION { MetricsRecords(MetricsKeys[i])
                                        : i \in 1..Len(MetricsKeys) }] :
                \A i \in 1..n : m[i].email = MetricsKeys[i] }
            : n \in 0..(IF MaxRecords < Len(MetricsKeys)
                         THEN MaxRecords ELSE Len(MetricsKeys)) }

\* the event types Mailgun reports; only five are counted
EventTypes == { "opened", "clicked", "bounced", "complained", "unsubscribed",
                "delivered" }

EventLists == UNION { [1..n -> [type : EventTypes]] : n \in 0..MaxEvents }

\* round(n / d * 100, 1) in tenths of a percent.  The quotient never falls
\* half way between two tenths for the denominators of the model, so the
\* rounding mode of round() does not show.
RoundedRate(n, d) == (2000 * n + d) \div (2 * d)

\* `round(n / d * 100, 1) if d > 0 else 0`
Rate(n, d) == IF d > 0 THEN RoundedRate(n, d) ELSE 0

\* lines 96-101 reading the later stamp first
OpenStageLatestStamp(data) ==
    IF Truthy(data.followup_2_sent) THEN "followup_2"
    ELSE IF Truthy(data.followup_1_sent) THEN "followup_1"
    ELSE "initial"

\* lines 96-101: the stage an opened record is counted for
OpenStage(data) ==
    IF ~Truthy(data.followup_1_sent) THEN "initial"
    ELSE IF ~Truthy(data.followup_2_sent) THEN "followup_1"
    ELSE "followup_2"

\* lines 90-101: the three counters after the loop over tracking.items()
StageOpens(tracking_, stage) ==
    Len(SelectSeq(tracking_, LAMBDA d : d.opened /\ OpenStage(d) = stage))

\* calculate_metrics(tracking, events); len([x for x in xs if P(x)]) is
\* Len(SelectSeq(xs, P)), and the rates are in tenths of a percent
calculate_metrics(tracking_, events) ==
    LET total_sent   == Len(tracking_)
        opens        == Len(SelectSeq(events, LAMBDA ev : ev.type = "opened"))
        clicks       == Len(SelectSeq(events, LAMBDA ev : ev.type = "clicked"))
        bounces      == Len(SelectSeq(events, LAMBDA ev : ev.type = "bounced"))
        complaints   == Len(SelectSeq(events, LAMBDA ev : ev.type = "complained"))
        unsubscribes == Len(SelectSeq(events, LAMBDA ev : ev.type = "unsubscribed"))
        followup_1_sent == Len(SelectSeq(tracking_, LAMBDA d : Truthy(d.followup_1_sent)))
        followup_2_sent == Len(SelectSeq(tracking_, LAMBDA d : Truthy(d.followup_2_sent)))
        initial_opens    == StageOpens(tracking_, "initial")
        followup_1_opens == StageOpens(tracking_, "followup_1")
        followup_2_opens == StageOpens(tracking_, "followup_2")
    IN  [ total_sent           |-> total_sent,
          opens                |-> opens,
          clicks               |-> clicks,
          bounces              |-> bounces,
          complaints           |-> complaints,
          unsubscribes         |-> unsubscribes,
          open_rate            |-> Rate(opens, total_sent),
          click_rate           |-> Rate(clicks, total_sent),
          bounce_rate          |-> Rate(bounces, total_sent),
          followup_1_sent      |-> followup_1_sent,
          followup_2_sent      |-> followup_2_sent,
          initial_open_rate    |-> Rate(initial_opens, total_sent),
          followup_1_open_rate |-> Rate(followup_1_opens, followup_1_sent),
          followup_2_open_rate |-> Rate(followup_2_opens, followup_2_sent) ]

\* a call of calculate_metrics on the arguments
Analyze ==
    /\ metrics = None
    /\ metrics' = calculate_metrics(mTracking, mEvents)
    /\ UNCHANGED << mTracking, mEvents >>
    /\ UNCHANGED << fuVars, rtVars, plVars >>

\* no call of calculate_metrics is under way
InitNoMetrics ==
    /\ mTracking = << >>
    /\ mEvents = << >>
    /\ metrics = None

\* the arguments of a call
InitMetrics ==
    /\ mTracking \in MetricsTrackings
    /\ mEvents \in EventLists
    /\ metrics = None

NextMetrics == Analyze

InitFollowup ==
    /\ now = 0
    /\ fileStatus = "missing"
    /\ fileData = << >>
    /\ pc = [p \in Passes |-> "idle"]
    /\ tracking = [p \in Passes |-> << >>]
    /\ passNow = [p \in Passes |-> 0]
    /\ idx = [p \in Passes |-> 1]
    /\ sent_followup_1 = [p \in Passes |-> 0]
    /\ sent_followup_2 = [p \in Passes |-> 0]
    /\ attempts = [p \in Passes |-> << >>]
    /\ lost = {}
    /\ overlap = FALSE

Init == InitFollowup /\ InitRealtime /\ InitPipeline /\ InitNoMetrics

Environment ==
    \/ Tick
    \/ \E e \in Emails, c \in Companies : track_initial_send(e, c)
    \/ \E k \in Keys, f \in Flags : IngestEvent(k, f)
    \/ \E how \in {"missing", "corrupt"} : StoreUnavailable(how)

\* the scheduled job starts send_followups once a day, at midnight
Scheduled == now % TicksPerDay = 0

StartScheduled(p) == Scheduled /\ StartPass(p)

\* passes run one at a time: a single scheduled job
Next ==
    \/ Environment
    \/ StartScheduled("p1")
    \/ EvalRecord("p1")
    \/ FinishPass("p1")

Spec == Init /\ [][Next]_vars

\* a second invocation while the first is between its load and its save; the
\* model follows one such overlap per behaviour
StartOverlapping(p) ==
    /\ Scheduled
    /\ ~overlap
    /\ \E q \in Passes \ {p} : pc[q] = "loop"
    /\ StartPass(p)

\* passes may overlap
NextOverlap ==
    \/ Tick
    \/ \E e \in Emails, c \in Companies : track_initial_send(e, c)
    \/ StartScheduled("p1")
    \/ StartOverlapping("p2")
    \/ \E p \in Passes : EvalRecord(p)
    \/ \E p \in Passes : FinishPass(p)

SpecOverlap == Init /\ [][NextOverlap]_vars


\* the store handed to the program holds a record without initial_sent (spec 7,
\* "malformed record"), ahead of a well-formed one
MalformedStore ==
    << [ NewRecord(<<"bob", "y.com">>, "Glow Medspa", 0)
           EXCEPT !.initial_sent = None ],
       NewRecord(<<"info", "x.com">>, "Glow Medspa", 0) >>

InitMalformed ==
    /\ now = 0
    /\ fileStatus = "ok"
    /\ fileData = MalformedStore
    /\ pc = [p \in Passes |-> "idle"]
    /\ tracking = [p \in Passes |-> << >>]
    /\ passNow = [p \in Passes |-> 0]
    /\ idx = [p \in Passes |-> 1]
    /\ sent_followup_1 = [p \in Passes |-> 0]
    /\ sent_followup_2 = [p \in Passes |-> 0]
    /\ attempts = [p \in Passes |-> << >>]
    /\ lost = {}
    /\ overlap = FALSE
    /\ InitRealtime
    /\ InitPipeline
    /\ InitNoMetrics

SpecMalformed == InitMalformed /\ [][Next]_vars

\* passes run one at a time and may die before their save; the store is
\* written by track_initial_send and by the passes
NextCrash ==
    \/ Tick
    \/ \E e \in Emails, c \in Companies : track_initial_send(e, c)
    \/ StartScheduled("p1")
    \/ EvalRecord("p1")
    \/ FinishPass("p1")
    \/ Kill("p1")

SpecCrash == Init /\ [][NextCrash]_vars

SpecRealtime == Init /\ [][NextRealtime]_vars

SpecPipeline == Init /\ [][NextPipeline]_vars

\* the arguments of a call, the other programs at rest
InitAnalysis == InitFollowup /\ InitRealtime /\ InitPipeline /\ InitMetrics

\* an iteration of the loop whose dispatch to key k is delivered
Delivers(p, k) ==
    /\ EvalRecord(p)
    /\ Len(attempts'[p]) = Len(attempts[p]) + 1
    /\ attempts'[p][Len(attempts'[p])].email = k
    /\ attempts'[p][Len(attempts'[p])].ok

\* passes keep being started and run to their end, the clock keeps moving, and
\* a dispatch that is attempted again and again is delivered at some attempt
Fairness ==
    /\ WF_vars(Tick)
    /\ WF_vars(StartScheduled("p1"))
    /\ WF_vars(EvalRecord("p1"))
    /\ WF_vars(FinishPass("p1"))
    /\ \A k \in Keys : SF_vars(Delivers("p1", k))

SpecFair == Spec /\ Fairness

SpecMetrics == InitAnalysis /\ [][NextMetrics]_vars

(***************************************************************************)
(* Properties of send_followups.                                           *)
(***************************************************************************)
\* the send_email calls pass p has made for key k
AttemptsFor(p, k) == SelectSeq(attempts[p], LAMBDA a : a.email = k)

\* the records pass p has evaluated so far
Evaluated(p) == 1 .. (idx[p] - 1)

\* ticks between a record's initial send and time t
Elapsed(data, t) == t - fromisoformat(data.initial_sent)

StampField(stage) == IF stage = 1 THEN "followup_1_sent" ELSE "followup_2_sent"

\* a step of a pass (the other steps leave pc and idx alone)
PassStep == pc' # pc \/ idx' # idx

\* C1: a record that is replied or clicked when a pass evaluates it gets no
\* dispatch attempt in that pass and is left exactly as it was loaded,
\* whatever the days elapsed.
C1_RepliedOrClickedNeverDispatched ==
    \A p \in Passes : pc[p] = "loop" =>
        \A i \in Evaluated(p) :
            (tracking[p][i].replied \/ tracking[p][i].clicked) =>
                /\ Len(AttemptsFor(p, tracking[p][i].email)) = 0
                /\ tracking[p][i] = fileData[i]

C1_Witness ==
    \E p \in Passes : pc[p] = "loop" /\
        \E i \in Evaluated(p) :
            /\ tracking[p][i].clicked
            /\ Elapsed(tracking[p][i], passNow[p]) >= 7 * TicksPerDay
            /\ AttemptsFor(p, tracking[p][i].email) = << >>

\* C2: once a stage's timestamp is in the store, no pass dispatches that stage
\* again (first conjunct) and no step of a pass changes the timestamp (second).
C2_StageStampedAtMostOnce ==
    /\ [](\A p \in Passes : pc[p] = "loop" =>
            \A n \in 1..Len(attempts[p]) :
                ~Truthy(Get(fileData, attempts[p][n].email)
                            [StampField(attempts[p][n].stage)]))
    /\ [][PassStep =>
            \A i \in 1..Len(fileData) : \A f \in {"followup_1_sent", "followup_2_sent"} :
                Truthy(fileData[i][f]) =>
                    /\ fileStatus' = "ok"
                    /\ Has(fileData', fileData[i].email)
                    /\ Get(fileData', fileData[i].email)[f] = fileData[i][f]]_vars

\* a later pass with the same `now` as the one that stamped stage 1
C2_Witness ==
    \E p \in Passes : pc[p] = "loop" /\
        \E i \in Evaluated(p) :
            /\ tracking[p][i].followup_1_sent = isoformat(passNow[p])
            /\ AttemptsFor(p, tracking[p][i].email) = << >>


\* C3: per pass every record gets at most one dispatch attempt, for the first
\* applicable stage in the order stage 1, stage 2; an evaluated record with
\* days_since >= 7 and neither timestamp set gets exactly one, for stage 1.
C3_OneDispatchStage1First ==
    \A p \in Passes : pc[p] = "loop" =>
        \A i \in Evaluated(p) :
            LET r0   == fileData[i]
                made == AttemptsFor(p, r0.email)
                days == Elapsed(r0, passNow[p]) \div TicksPerDay
                app1 == days >= 3 /\ r0.followup_1_sent = None
                app2 == days >= 7 /\ r0.followup_2_sent = None
            IN  /\ Len(made) <= 1
                /\ Len(made) = 1 => /\ made[1].stage = 1 => app1
                                    /\ made[1].stage = 2 => ~app1 /\ app2
                /\ ( /\ ~r0.replied /\ ~r0.clicked
                     /\ days >= 7
                     /\ r0.followup_1_sent = None
                     /\ r0.followup_2_sent = None )
                   => Len(made) = 1 /\ made[1].stage = 1

C3_Witness ==
    \E p \in Passes : pc[p] = "loop" /\
        \E i \in Evaluated(p) :
            /\ Elapsed(fileData[i], passNow[p]) >= 7 * TicksPerDay
            /\ fileData[i].followup_1_sent = None
            /\ fileData[i].followup_2_sent = None
            /\ Len(AttemptsFor(p, fileData[i].email)) = 1
            /\ AttemptsFor(p, fileData[i].email)[1].stage = 1

\* C4: no follow-up is dispatched to a record less than 3 whole days after
\* its initial_sent, and every followup_1_sent in the store or in a pass's
\* memory is at least 3 whole days after the record's initial_sent.
C4_NothingBeforeDay3 ==
    /\ \A p \in Passes : pc[p] = "loop" =>
          \A n \in 1..Len(attempts[p]) :
              Elapsed(Get(tracking[p], attempts[p][n].email), passNow[p])
                  >= 3 * TicksPerDay
    /\ \A m \in {fileData} \cup {tracking[p] : p \in Passes} :
          \A i \in 1..Len(m) :
              Truthy(m[i].followup_1_sent) =>
                  fromisoformat(m[i].followup_1_sent)
                      - fromisoformat(m[i].initial_sent) >= 3 * TicksPerDay

\* a record evaluated half a day short of day 3, and not dispatched to
C4_Witness ==
    \E p \in Passes : pc[p] = "loop" /\
        \E i \in Evaluated(p) :
            /\ ~tracking[p][i].replied /\ ~tracking[p][i].clicked
            /\ Elapsed(tracking[p][i], passNow[p]) = 3 * TicksPerDay - 1
            /\ AttemptsFor(p, tracking[p][i].email) = << >>

\* C5: a failed dispatch does not end the pass, leaves the record as it was
\* loaded, and the record the pass then saves is due for the same stage at
\* every later pass time.
C5_FailedDispatchRetried ==
    /\ [](\A p \in Passes :
            /\ pc[p] # "crashed"
            /\ pc[p] = "loop" =>
                 \A n \in 1..Len(attempts[p]) :
                     ~attempts[p][n].ok =>
                         LET k == attempts[p][n].email
                         IN  /\ Get(tracking[p], k) = Get(fileData, k)
                             /\ \A t \in passNow[p]..MaxTime :
                                  StageDue(Get(tracking[p], k), t)
                                      = attempts[p][n].stage)
    /\ [][\A p \in Passes : (pc[p] = "loop" /\ pc'[p] = "idle") =>
            \A n \in 1..Len(attempts[p]) :
                ~attempts[p][n].ok =>
                    /\ fileStatus' = "ok"
                    /\ Has(fileData', attempts[p][n].email)
                    /\ \A t \in now..MaxTime :
                         StageDue(Get(fileData', attempts[p][n].email), t)
                             = attempts[p][n].stage]_vars

\* a pass about to save after a failed stage-2 dispatch, the record still due
C5_Witness ==
    \E p \in Passes :
        /\ pc[p] = "loop"
        /\ idx[p] > Len(tracking[p])
        /\ \E n \in 1..Len(attempts[p]) :
              /\ ~attempts[p][n].ok
              /\ attempts[p][n].stage = 2
              /\ Get(tracking[p], attempts[p][n].email).followup_2_sent = None
              /\ StageDue(Get(tracking[p], attempts[p][n].email), now) = 2


\* C6: a record without initial_sent is skipped: no pass crashes on it, so the
\* other records are still evaluated and the store is still saved.
C6_MalformedRecordSkipped ==
    \A p \in Passes : pc[p] # "crashed"

\* C7: load_followup_tracking gives the empty mapping and does not raise when
\* the file is missing or corrupt, and a pass over such a store makes no
\* dispatch attempt and is ready to save and exit.
C7_UnavailableStoreIsNoOp ==
    fileStatus # "ok" =>
        /\ load_followup_tracking = << >>
        /\ ~LoadRaises
        /\ \A p \in Passes : pc[p] # "idle" =>
              /\ pc[p] = "loop"
              /\ tracking[p] = << >>
              /\ attempts[p] = << >>
              /\ ENABLED FinishPass(p)

\* a pass that loaded a corrupt file
C7_Witness ==
    \E p \in Passes :
        /\ fileStatus = "corrupt"
        /\ pc[p] = "loop"
        /\ tracking[p] = << >>

\* C10: a save erases a persisted stamp only when passes have overlapped; the
\* witness is the lost update itself.
C10_LostUpdateOnlyByOverlap ==
    lost # {} => overlap

\* a stamp one pass saved is gone from the store after the other pass's save,
\* and the record is due for that stage again
C10_Witness ==
    \E l \in lost :
        /\ fileStatus = "ok"
        /\ Has(fileData, l[1])
        /\ Get(fileData, l[1]).initial_sent = l[3]
        /\ Get(fileData, l[1])[StampField(l[2])] = None
        /\ StageDue(Get(fileData, l[1]), now) = l[2]


\* C8: the real-time service delivers at most one initial email per
\* lower-cased address, over every interleaving of its background tasks.
C8_RealtimeOneInitialPerKey ==
    \A k \in Keys : rtSends[k] <= 1

\* C9: the scheduled pipeline delivers at most one initial email per
\* lower-cased address, over every sequence of runs and every list of leads.
C9_PipelineOneInitialPerKey ==
    \A k \in Keys : plSends[k] <= 1

\* C11: a pass writes the store only in its last step, once every record has
\* been evaluated, and that step ends the pass; a pass that dies before it
\* leaves the file as it was, so no stamp of a dispatch it made is in the store.
C11_SavedOnceAtTheEnd ==
    /\ [][PassStep =>
            \A p \in Passes :
                IF pc[p] = "loop" /\ pc'[p] = "idle"
                THEN /\ idx[p] > Len(tracking[p])
                     /\ fileStatus' = "ok"
                     /\ fileData' = tracking[p]
                ELSE (pc[p] # pc'[p] \/ idx[p] # idx'[p]) =>
                        /\ fileStatus' = fileStatus
                        /\ fileData' = fileData]_vars
    /\ [](\A p \in Passes : pc[p] = "crashed" =>
            \A n \in 1..Len(attempts[p]) :
                (attempts[p][n].ok /\ fileStatus = "ok"
                    /\ Has(fileData, attempts[p][n].email)) =>
                    ~Truthy(Get(fileData, attempts[p][n].email)
                                [StampField(attempts[p][n].stage)]))

\* a pass died after a dispatch that succeeded: the stamp is in its memory and
\* not in the file
C11_Witness ==
    \E p \in Passes :
        /\ pc[p] = "crashed"
        /\ \E n \in 1..Len(attempts[p]) :
              LET k == attempts[p][n].email
              IN  /\ attempts[p][n].ok
                  /\ attempts[p][n].stage = 1
                  /\ Get(tracking[p], k).followup_1_sent = isoformat(passNow[p])
                  /\ fileStatus = "ok"
                  /\ Has(fileData, k)
                  /\ Get(fileData, k).followup_1_sent = None
                  /\ Get(fileData, k).initial_sent = Get(tracking[p], k).initial_sent

\* the successful dispatches of a stage pass p has made
Delivered(p, stage) ==
    { n \in 1..Len(attempts[p]) : attempts[p][n].stage = stage /\ attempts[p][n].ok }

\* the records whose stamp f pass p has set: it differs from the stored one
SetInPass(p, f) ==
    { i \in 1..Len(tracking[p]) : tracking[p][i][f] # fileData[i][f] }

\* C16: in a pass, every stamp set is the pass's `now` snapshot, every
\* successful dispatch has its stamp, and each counter equals both the number
\* of successful dispatches of its stage and the number of records whose
\* stamp of that stage the pass has set.
C16_StampedWithSnapshotAndCounted ==
    \A p \in Passes : pc[p] = "loop" =>
        /\ Len(tracking[p]) = Len(fileData)
        /\ \A f \in {"followup_1_sent", "followup_2_sent"} :
              \A i \in SetInPass(p, f) : tracking[p][i][f] = isoformat(passNow[p])
        /\ \A n \in 1..Len(attempts[p]) :
              attempts[p][n].ok =>
                  Get(tracking[p], attempts[p][n].email)[StampField(attempts[p][n].stage)]
                      = isoformat(passNow[p])
        /\ sent_followup_1[p] = Cardinality(Delivered(p, 1))
        /\ sent_followup_2[p] = Cardinality(Delivered(p, 2))
        /\ sent_followup_1[p] = Cardinality(SetInPass(p, "followup_1_sent"))
        /\ sent_followup_2[p] = Cardinality(SetInPass(p, "followup_2_sent"))

\* the end of a pass that stamped two records, the clock having moved on
\* since the snapshot
C16_Witness ==
    \E p \in Passes :
        /\ pc[p] = "loop"
        /\ idx[p] > Len(tracking[p])
        /\ now > passNow[p]
        /\ sent_followup_1[p] = 2
        /\ \A i \in 1..Len(tracking[p]) :
              tracking[p][i].followup_1_sent = isoformat(passNow[p])

\* C17: a pass dispatches stage 2 to a record it evaluates exactly when the
\* record, as loaded, is not replied or clicked, is at least 7 whole days
\* old, has followup_1_sent set and followup_2_sent unset; a successful one
\* sets followup_2_sent; every followup_2_sent is at least 7 whole days after
\* initial_sent.
C17_Stage2ExactlyWhenDue ==
    /\ \A p \in Passes : pc[p] = "loop" =>
          \A i \in Evaluated(p) :
              LET r0   == fileData[i]
                  made == AttemptsFor(p, r0.email)
                  days == Elapsed(r0, passNow[p]) \div TicksPerDay
              IN  /\ (\E n \in 1..Len(made) : made[n].stage = 2)
                        <=> ( /\ ~r0.replied /\ ~r0.clicked
                              /\ days >= 7
                              /\ r0.followup_1_sent # None
                              /\ r0.followup_2_sent = None )
                  /\ (\E n \in 1..Len(made) : made[n].stage = 2 /\ made[n].ok)
                        => tracking[p][i].followup_2_sent = isoformat(passNow[p])
    /\ \A m \in {fileData} \cup {tracking[p] : p \in Passes} :
          \A i \in 1..Len(m) :
              Truthy(m[i].followup_2_sent) =>
                  fromisoformat(m[i].followup_2_sent)
                      - fromisoformat(m[i].initial_sent) >= 7 * TicksPerDay

\* stage 2 delivered to a record with stage 1 already stamped by an earlier pass
C17_Witness ==
    \E p \in Passes : pc[p] = "loop" /\
        \E i \in Evaluated(p) :
            /\ Truthy(fileData[i].followup_1_sent)
            /\ fileData[i].followup_1_sent # isoformat(passNow[p])
            /\ fileData[i].followup_2_sent = None
            /\ AttemptsFor(p, fileData[i].email)
                  = << [email |-> fileData[i].email, stage |-> 2, ok |-> TRUE] >>
            /\ tracking[p][i].followup_2_sent = isoformat(passNow[p])

\* C19: in the store and in every pass's memory followup_2_sent set implies
\* followup_1_sent set; stage 2 is dispatched only to records whose
\* followup_1_sent is set; a record whose followup_1_sent is unset is never
\* due for stage 2, at any time.
C19_Stage2OnlyAfterStage1 ==
    /\ \A m \in {fileData} \cup {tracking[p] : p \in Passes} :
          \A i \in 1..Len(m) :
              /\ Truthy(m[i].followup_2_sent) => Truthy(m[i].followup_1_sent)
              /\ ~Truthy(m[i].followup_1_sent) =>
                    \A t \in 0..MaxTime : StageDue(m[i], t) # 2
    /\ \A p \in Passes : pc[p] = "loop" =>
          \A n \in 1..Len(attempts[p]) :
              attempts[p][n].stage = 2 =>
                  /\ Truthy(Get(tracking[p], attempts[p][n].email).followup_1_sent)
                  /\ Truthy(Get(fileData, attempts[p][n].email).followup_1_sent)

\* a stage-1 dispatch fails on a record already old enough for stage 2: the
\* pass ends with that one attempt and both stamps unset
C19_Witness ==
    \E p \in Passes :
        /\ pc[p] = "loop"
        /\ idx[p] > Len(tracking[p])
        /\ \E i \in 1..Len(tracking[p]) :
              /\ Elapsed(tracking[p][i], passNow[p]) >= 7 * TicksPerDay
              /\ AttemptsFor(p, tracking[p][i].email)
                    = << [email |-> tracking[p][i].email, stage |-> 1, ok |-> FALSE] >>
              /\ tracking[p][i].followup_1_sent = None
              /\ tracking[p][i].followup_2_sent = None

\* mapping `new` is mapping `old` but for stamps set from None to time t
Frame(old, new, t) ==
    /\ Len(new) = Len(old)
    /\ \A i \in 1..Len(old) :
          /\ \A f \in {"email", "company_name", "first_name", "initial_sent",
                        "replied", "opened", "clicked"} : new[i][f] = old[i][f]
          /\ \A f \in {"followup_1_sent", "followup_2_sent"} :
                \/ new[i][f] = old[i][f]
                \/ old[i][f] = None /\ new[i][f] = isoformat(t)

\* C20: the mapping of a pass is, at every step, the stored mapping but for
\* stamps set from unset to the pass's `now`, and so is the mapping the pass
\* saves: same keys in the same order, every other field as it was.
C20_PassFrame ==
    /\ [](\A p \in Passes : pc[p] = "loop" =>
            Frame(fileData, tracking[p], passNow[p]))
    /\ [][\A p \in Passes : (pc[p] = "loop" /\ pc'[p] = "idle") =>
            /\ fileStatus' = "ok"
            /\ Frame(fileData, fileData', passNow[p])]_vars

\* the end of a pass that stamped a record whose opened flag is set and
\* completed the sequence of another
C20_Witness ==
    \E p \in Passes :
        /\ pc[p] = "loop"
        /\ idx[p] > Len(tracking[p])
        /\ \E i, j \in 1..Len(tracking[p]) :
              /\ tracking[p][i].opened
              /\ fileData[i].followup_1_sent = None
              /\ tracking[p][i].followup_1_sent = isoformat(passNow[p])
              /\ Truthy(fileData[j].followup_1_sent)
              /\ fileData[j].followup_2_sent = None
              /\ tracking[p][j].followup_2_sent = isoformat(passNow[p])

\* C21: a record evaluated at 7 or more whole days with neither stamp set gets
\* stage 1 only; a record whose stage 1 was stamped at 7 or more whole days
\* gets stage 2 in whatever pass evaluates it next, however short the time
\* since that stamp, and a successful dispatch stamps followup_2_sent.
C21_NoGapBetweenStages ==
    \A p \in Passes : pc[p] = "loop" =>
        \A i \in Evaluated(p) :
            LET r0   == fileData[i]
                made == AttemptsFor(p, r0.email)
                live == ~r0.replied /\ ~r0.clicked
                days == Elapsed(r0, passNow[p]) \div TicksPerDay
            IN  /\ (live /\ days >= 7 /\ r0.followup_1_sent = None
                          /\ r0.followup_2_sent = None)
                      => Len(made) = 1 /\ made[1].stage = 1
                /\ ( /\ live
                      /\ Truthy(r0.followup_1_sent)
                      /\ r0.followup_2_sent = None
                      /\ Elapsed(r0, fromisoformat(r0.followup_1_sent))
                            >= 7 * TicksPerDay )
                      => /\ Len(made) = 1
                         /\ made[1].stage = 2
                         /\ made[1].ok =>
                               tracking[p][i].followup_2_sent = isoformat(passNow[p])

\* two passes with the same `now`: the first stamped stage 1, the second
\* stamps stage 2 with the same timestamp
C21_Witness ==
    \E p \in Passes : pc[p] = "loop" /\
        \E i \in Evaluated(p) :
            /\ fileData[i].followup_1_sent = isoformat(passNow[p])
            /\ fileData[i].followup_2_sent = None
            /\ tracking[p][i].followup_2_sent = isoformat(passNow[p])
            /\ AttemptsFor(p, fileData[i].email)
                  = << [email |-> fileData[i].email, stage |-> 2, ok |-> TRUE] >>

\* the record of key k in the store has both stamps
Complete(k) ==
    /\ fileStatus = "ok"
    /\ Has(fileData, k)
    /\ Truthy(Get(fileData, k).followup_1_sent)
    /\ Truthy(Get(fileData, k).followup_2_sent)

\* key k has nothing left to receive: no record, replied or clicked, or complete
Settled(k) ==
    (fileStatus = "ok" /\ Has(fileData, k)) =>
        \/ Get(fileData, k).replied
        \/ Get(fileData, k).clicked
        \/ Complete(k)

\* C22: with passes, clock and deliveries kept going, every key's record that
\* is not replied or clicked ends up, for good, with both stamps set; and while
\* a record has both stamps no pass has made a dispatch attempt for it, nor is
\* any stage due for it at any time.
C22_ProgressAndQuiescence ==
    /\ \A k \in Keys : <>[]Settled(k)
    /\ [](\A k \in Keys : Complete(k) =>
            /\ \A p \in Passes : AttemptsFor(p, k) = << >>
            /\ \A t \in 0..MaxTime : StageDue(Get(fileData, k), t) = 0)

\* a pass has evaluated a record that has both stamps, without an attempt
C22_Witness ==
    \E p \in Passes : pc[p] = "loop" /\
        \E i \in Evaluated(p) :
            /\ Complete(fileData[i].email)
            /\ ~fileData[i].replied /\ ~fileData[i].clicked
            /\ tracking[p][i] = fileData[i]
            /\ AttemptsFor(p, fileData[i].email) = << >>

\* C13: once run_pipeline or process_signal has delivered an initial email to
\* an address, the follow-up tracking store holds a record for its lower-cased
\* key, with initial_sent set.
C13_InitialSendTracked ==
    \A k \in Keys :
        (plSends[k] > 0 \/ rtSends[k] > 0) =>
            /\ fileStatus = "ok"
            /\ Has(fileData, k)
            /\ Truthy(Get(fileData, k).initial_sent)

\* a key that has a record in the store before and after a step
Kept(k) ==
    /\ fileStatus = "ok" /\ Has(fileData, k)
    /\ fileStatus' = "ok" /\ Has(fileData', k)

\* C14: no step (track_initial_send, a step of a pass, a flag update) changes
\* the initial_sent of a key that has a record.
C14_InitialSentImmutable ==
    [][\A k \in Keys :
          Kept(k) => Get(fileData', k).initial_sent = Get(fileData, k).initial_sent]_vars

\* C15: no step resets an engagement flag that is true for a key.
C15_FlagsMonotonic ==
    [][\A k \in Keys : \A f \in Flags :
          (Kept(k) /\ Get(fileData, k)[f]) => Get(fileData', k)[f]]_vars

(***************************************************************************)
(* Properties of calculate_metrics.                                        *)
(***************************************************************************)
RateFields == { "open_rate", "click_rate", "bounce_rate", "initial_open_rate",
                "followup_1_open_rate", "followup_2_open_rate" }

\* C12: every rate calculate_metrics returns is between 0 and 100 percent
\* (0 and 1000 tenths), and is 0 when the tracking mapping is empty.
C12_RatesWithinBounds ==
    metrics # None =>
        \A f \in RateFields :
            /\ 0 <= metrics[f] /\ metrics[f] <= 1000
            /\ Len(mTracking) = 0 => metrics[f] = 0

\* C18: total_sent is the number of tracked records; an opened record counts
\* for initial when followup_1_sent is unset, else for follow-up 1 when
\* followup_2_sent is unset, else for follow-up 2; the three counts add up to
\* the number of opened records, and the per-stage rates are made from them.
C18_OpensAttributedToOneStage ==
    metrics # None =>
        LET opened == { i \in 1..Len(mTracking) : mTracking[i].opened }
            ini == { i \in opened : mTracking[i].followup_1_sent = None }
            fu1 == { i \in opened : /\ mTracking[i].followup_1_sent # None
                                     /\ mTracking[i].followup_2_sent = None }
            fu2 == { i \in opened : /\ mTracking[i].followup_1_sent # None
                                     /\ mTracking[i].followup_2_sent # None }
        IN  /\ metrics.total_sent = Len(mTracking)
            /\ StageOpens(mTracking, "initial") = Cardinality(ini)
            /\ StageOpens(mTracking, "followup_1") = Cardinality(fu1)
            /\ StageOpens(mTracking, "followup_2") = Cardinality(fu2)
            /\ StageOpens(mTracking, "initial") + StageOpens(mTracking, "followup_1")
                  + StageOpens(mTracking, "followup_2") = Cardinality(opened)
            /\ metrics.initial_open_rate
                  = Rate(Cardinality(ini), Len(mTracking))
            /\ metrics.followup_1_open_rate
                  = Rate(Cardinality(fu1), metrics.followup_1_sent)
            /\ metrics.followup_2_open_rate
                  = Rate(Cardinality(fu2), metrics.followup_2_sent)

\* metrics of a mapping with an opened record in each stage, one of them with
\* followup_2_sent set and followup_1_sent unset
C18_Witness ==
    /\ metrics # None
    /\ Len(mTracking) = 3
    /\ \A i \in 1..3 : mTracking[i].opened
    /\ mTracking[1].followup_1_sent = None /\ mTracking[1].followup_2_sent # None
    /\ mTracking[2].followup_1_sent # None /\ mTracking[2].followup_2_sent = None
    /\ mTracking[3].followup_1_sent # None /\ mTracking[3].followup_2_sent # None
    /\ metrics.initial_open_rate = 333
    /\ metrics.followup_1_open_rate = 500

====
